---- MODULE Spec2Model ----
(***************************************************************************)
(* A model of the EmoLang parser (src/emolang/parser/parser.py).           *)
(*                                                                         *)
(* The parser is a recursive-descent parser over a list of tokens.  Its    *)
(* only mutable field is the cursor self._current.  Every method of the    *)
(* class is an operator of the same name; the first parameter, self, is    *)
(* the mutable part of the parser object ([current, calls]) and every      *)
(* operator returns an outcome record:                                     *)
(*    [kind |-> "ok", node |-> the value returned, self |-> parser after]  *)
(*    [kind |-> "SyntaxException", line, message]   a raised syntax error  *)
(*    [kind |-> "AttributeError"]     attribute access on None             *)
(*    [kind |-> "IndexError"]         list index out of range              *)
(*    [kind |-> "diverges"]           a loop that never exits              *)
(* Token indices are those of the Python list (the first token is 0).      *)
(* The field self.calls is a history of the calls of _parse_expression    *)
(* that returned: it is never read by the parser.                          *)
(* The statements of a method are chained with Then, which lets an         *)
(* exception raised by a statement end the method.  In the messages of     *)
(* the errors the emoji of a keyword is written as the name of its token   *)
(* kind (print, var, equal, if, elseif, else).                             *)
(***************************************************************************)
EXTENDS Integers, Sequences, FiniteSets, TLC

VARIABLES
    tokens,     \* self._tokens: the token list handed to the constructor
    current,    \* self._current: the cursor
    nodes,      \* the local list `nodes` of parse()
    calls,      \* history: the _parse_expression calls that returned
    status,     \* "parsing", "returned" or the kind of the failure
    error,      \* the exception raised ([line, message]) or NoError
    result      \* the value parse() returned, or None

vars == <<tokens, current, nodes, calls, status, error, result>>

----------------------------------------------------------------------------
(* Token kinds and their classification (token_type.py).                   *)

TokenType ==
    {"LEFT_PAREN", "RIGHT_PAREN", "LEFT_BRACE", "RIGHT_BRACE", "SEMI_COLON",
     "PLUS", "MINUS", "MULTIPLY", "DIVIDE", "MODULUS", "EXPONENT", "COMMA",
     "PERIOD", "BANG", "BANG_EQUAL", "EQUAL", "EQUAL_EQUAL", "GREATER",
     "GREATER_EQUAL", "LESS", "LESS_EQUAL", "IDENTIFIER", "STRING", "NUMBER",
     "AND", "ELSE", "ELSEIF", "FALSE", "LOOP", "IF", "OR", "PRINT", "INPUT",
     "RETURN", "TRUE", "VAR", "FUNCTION", "FUNCTION_CALL", "BREAK",
     "CONTINUE", "EOF"}

literal_types == {"NUMBER", "STRING", "TRUE", "FALSE"}

valid_print_types == {"IDENTIFIER"} \cup literal_types

operation_types ==
    {"MULTIPLY", "DIVIDE", "PLUS", "MINUS", "MODULUS", "EXPONENT", "BANG",
     "BANG_EQUAL", "EQUAL_EQUAL", "LESS", "LESS_EQUAL", "GREATER",
     "GREATER_EQUAL", "AND", "OR"}

unary_operations == {"BANG"}

valid_expression_types ==
    valid_print_types \cup operation_types
        \cup {"LEFT_PAREN", "RIGHT_PAREN", "COMMA", "FUNCTION_CALL"}

if_statement_tokens == {"IF", "ELSEIF", "ELSE"}

----------------------------------------------------------------------------
(* Values.                                                                 *)

\* Python's None, as a node, a context or a returned value.
None == [type |-> "None"]

NoError == [line |-> 0, message |-> ""]

Ok(node, self) == [kind |-> "ok", node |-> node, self |-> self]

SyntaxException(line, message) ==
    [kind |-> "SyntaxException", line |-> line, message |-> message]

AttributeError == [kind |-> "AttributeError"]

IndexError == [kind |-> "IndexError"]

Diverges == [kind |-> "diverges"]

\* self._tokens[index] is defined for -len <= index < len.
Readable(index) == index < Len(tokens) /\ index >= 0 - Len(tokens)

----------------------------------------------------------------------------
(* The parser's methods.                                                   *)

RECURSIVE HandleToken(_, _, _)
RECURSIVE ParsePrintToken(_)
RECURSIVE ParseVarToken(_)
RECURSIVE ParseExpression(_)
RECURSIVE FindEndOfExpressionLoop(_)
RECURSIVE ParseExpressionRecursive(_, _, _)
RECURSIVE OperatorSearch(_, _, _, _)
RECURSIVE OperatorScan(_, _, _, _, _)
RECURSIVE ParenthesisCountLoop(_, _, _)
RECURSIVE HandleByOperations(_, _, _, _, _)
RECURSIVE HandleUnaryOperation(_, _, _)
RECURSIVE HandleBinaryOperation(_, _, _, _)
RECURSIVE ParseIfStatement(_)
RECURSIVE ParseConditional(_)
RECURSIVE ParseBlockLoop(_, _)
RECURSIVE ParseNextIfConditional(_)
RECURSIVE ParseElse(_)

\* Two steps of a method one after the other: an exception raised by the
\* first propagates, otherwise the rest of the method runs on what the first
\* returned.
Then(first, rest(_)) == IF first.kind # "ok" THEN first ELSE rest(first)

InBounds(index) == index < Len(tokens)

RetrieveToken(index) ==
    IF index >= 0 THEN tokens[index + 1] ELSE tokens[Len(tokens) + index + 1]

CurrentToken(self) == RetrieveToken(self.current)

IsEofToken(self) == CurrentToken(self).type = "EOF"

ValidateToken(self, valid_token_types, error_message) ==
    IF ~Readable(self.current) THEN IndexError
    ELSE LET next_token == RetrieveToken(self.current) IN
         IF next_token.type \notin valid_token_types
         THEN SyntaxException(next_token.line, error_message)
         ELSE Ok(None, [self EXCEPT !.current = @ + 1])

\* _parse_identifier_token moving the cursor past the identifier: the node
\* dispatch C8 tells apart from the one of the code.
ParseIdentifierToken_Advancing(self, index) ==
    IF ~Readable(index) THEN IndexError
    ELSE LET identifier_token == RetrieveToken(index) IN
         Ok([type |-> "VariableNode", name |-> identifier_token.lexeme],
            [self EXCEPT !.current = @ + 1])

ParseIdentifierToken(self, index) ==
    IF ~Readable(index) THEN IndexError
    ELSE LET identifier_token == RetrieveToken(index) IN
         Ok([type |-> "VariableNode", name |-> identifier_token.lexeme], self)

ParseLiteral(self, token) ==
    IF token.type = "STRING"
    THEN Ok([type |-> "StringLiteralNode", value |-> token.literal], self)
    ELSE IF token.type = "NUMBER"
    THEN Ok([type |-> "NumberLiteralNode", value |-> token.literal], self)
    ELSE IF token.type = "TRUE"
    THEN Ok([type |-> "BooleanLiteralNode", value |-> TRUE], self)
    ELSE IF token.type = "FALSE"
    THEN Ok([type |-> "BooleanLiteralNode", value |-> FALSE], self)
    ELSE Ok(None, self)

binary_operation_map ==
    [t \in operation_types \ {"BANG"} |->
        CASE t = "AND" -> "AndNode"
          [] t = "BANG_EQUAL" -> "NotEqualsNode"
          [] t = "DIVIDE" -> "DivisionNode"
          [] t = "EQUAL_EQUAL" -> "EqualsNode"
          [] t = "EXPONENT" -> "ExponentNode"
          [] t = "GREATER" -> "GreaterNode"
          [] t = "GREATER_EQUAL" -> "GreaterEqualsNode"
          [] t = "LESS" -> "LessNode"
          [] t = "LESS_EQUAL" -> "LessEqualsNode"
          [] t = "MINUS" -> "SubtractionNode"
          [] t = "MODULUS" -> "ModulusNode"
          [] t = "MULTIPLY" -> "MultiplicationNode"
          [] t = "OR" -> "OrNode"
          [] t = "PLUS" -> "AdditionNode"]

\* _parse_operation with the operands of a binary operation exchanged: the
\* dispatch C9 tells apart from the one of the code.
ParseOperation_Exchanged(self, token, context) ==
    IF token.type \in DOMAIN binary_operation_map
    THEN IF context.type # "BinaryOperationContext" THEN AttributeError
         ELSE Ok([type |-> binary_operation_map[token.type],
                  left |-> context.right, right |-> context.left], self)
    ELSE IF token.type = "BANG"
    THEN IF context.type # "UnaryOperationContext" THEN AttributeError
         ELSE Ok([type |-> "NotNode", operand |-> context.operand], self)
    ELSE Ok(None, self)

ParseOperation(self, token, context) ==
    IF token.type \in DOMAIN binary_operation_map
    THEN IF context.type # "BinaryOperationContext" THEN AttributeError
         ELSE Ok([type |-> binary_operation_map[token.type],
                  left |-> context.left, right |-> context.right], self)
    ELSE IF token.type = "BANG"
    THEN IF context.type # "UnaryOperationContext" THEN AttributeError
         ELSE Ok([type |-> "NotNode", operand |-> context.operand], self)
    ELSE Ok(None, self)

\* index is <<>> for the default (None) and <<i>> for an explicit index.
HandleToken(self, index, context) ==
    LET at == IF index = <<>> THEN self.current ELSE index[1] IN
    IF ~Readable(at) THEN IndexError
    ELSE LET token == RetrieveToken(at) IN
         IF token.type = "PRINT" THEN ParsePrintToken(self)
         ELSE IF token.type = "IDENTIFIER" THEN ParseIdentifierToken(self, at)
         ELSE IF token.type = "VAR" THEN ParseVarToken(self)
         ELSE IF token.type = "IF" THEN ParseIfStatement(self)
         ELSE IF token.type \in literal_types THEN ParseLiteral(self, token)
         ELSE IF token.type \in operation_types
         THEN ParseOperation(self, token, context)
         ELSE Ok(None, self)

\* _parse_print_token without the validation of the semicolon: the
\* statement C7 tells apart from the one of the code.
ParsePrintToken_Unterminated(self) ==
    Then(ValidateToken(self, {"PRINT"}, "Expected print for print statement."),
         LAMBDA p :
    Then(ParseExpression(p.self),
         LAMBDA node_to_print :
    Ok([type |-> "PrintNode", value |-> node_to_print.node],
       node_to_print.self)))

ParsePrintToken(self) ==
    Then(ValidateToken(self, {"PRINT"}, "Expected print for print statement."),
         LAMBDA p :
    Then(ParseExpression(p.self),
         LAMBDA node_to_print :
    Then(ValidateToken(node_to_print.self, {"SEMI_COLON"},
             "Expected ';' to terminate statement."),
         LAMBDA s :
    Ok([type |-> "PrintNode", value |-> node_to_print.node], s.self))))

ParseVarToken(self) ==
    Then(ValidateToken(self, {"VAR"}, "Expected var to indicate variable."),
         LAMBDA v :
    Then(ParseIdentifierToken(v.self, v.self.current),
         LAMBDA variable_node :
    Then(ValidateToken(variable_node.self, {"IDENTIFIER"},
             "Expected an identifier for assignment."),
         LAMBDA i :
    Then(ValidateToken(i.self, {"EQUAL"}, "Expected equal for assignment."),
         LAMBDA e :
    Then(ParseExpression(e.self),
         LAMBDA value_node :
    Then(ValidateToken(value_node.self, {"SEMI_COLON"},
             "Expected ';' to terminate the statement."),
         LAMBDA s :
    Ok([type |-> "AssignmentNode", variable |-> variable_node.node,
        value |-> value_node.node], s.self)))))))

\* The while loop of _find_end_of_expression_index, from `index` on.
FindEndOfExpressionLoop(index) ==
    IF ~Readable(index) THEN IndexError
    ELSE IF RetrieveToken(index).type \in valid_expression_types
    THEN FindEndOfExpressionLoop(index + 1)
    ELSE Ok(index, None)

FindEndOfExpressionIndex(self) == FindEndOfExpressionLoop(self.current)

ParseExpression(self) ==
    Then(FindEndOfExpressionIndex(self),
         LAMBDA end_of_expression_index :
    Then(ParseExpressionRecursive(self, self.current,
             end_of_expression_index.node - 1),
         LAMBDA node :
    Ok(node.node,
       [current |-> end_of_expression_index.node,
        calls |-> Append(node.self.calls,
            [start |-> self.current,
             left |-> self.current,
             right |-> end_of_expression_index.node - 1,
             before |-> node.self.current,
             after |-> end_of_expression_index.node,
             node |-> node.node])])))

WithinParens(self, left_index, right_index) ==
    /\ RetrieveToken(left_index).type = "LEFT_PAREN"
    /\ RetrieveToken(right_index).type = "RIGHT_PAREN"

\* The while loop of _find_parenthesis_count: <<paren_counter, current_index>>
\* at its exit.
ParenthesisCountLoop(current_index, right_index, paren_counter) ==
    IF ~(current_index <= right_index) THEN <<paren_counter, current_index>>
    ELSE LET token == RetrieveToken(current_index)
             opened == IF token.type = "LEFT_PAREN"
                       THEN paren_counter + 1 ELSE paren_counter
             closed == IF token.type = "RIGHT_PAREN"
                       THEN opened - 1 ELSE opened
         IN  IF closed = 0 THEN <<closed, current_index>>
             ELSE ParenthesisCountLoop(current_index + 1, right_index, closed)

FindParenthesisCount(self, left_index, right_index) ==
    LET scan == ParenthesisCountLoop(left_index, right_index, 0)
        token_line == RetrieveToken(right_index).line
    IN  IF scan[1] > 0
        THEN SyntaxException(token_line, "Left parenthesis missing closing right.")
        ELSE IF scan[1] < 0
        THEN SyntaxException(token_line,
                 "Right parenthesis missing corresponding left.")
        ELSE Ok(scan, self)

\* _is_nested_parens without the comparison of the closing index with
\* right_index: the test C12 tells apart from the one of the code.
IsNestedParens_AnyClose(self, left_index, right_index) ==
    IF ~WithinParens(self, left_index, right_index) THEN Ok(FALSE, self)
    ELSE Then(FindParenthesisCount(self, left_index, right_index),
              LAMBDA count :
         Ok(count.node[1] = 0, self))

IsNestedParens(self, left_index, right_index) ==
    IF ~WithinParens(self, left_index, right_index) THEN Ok(FALSE, self)
    ELSE Then(FindParenthesisCount(self, left_index, right_index),
              LAMBDA count :
         Ok(count.node[1] = 0 /\ count.node[2] = right_index, self))

SkipParentheses(self, left_index, right_index) ==
    Then(FindParenthesisCount(self, left_index, right_index),
         LAMBDA count :
    Ok(IF count.node[2] + 1 < right_index
       THEN count.node[2] + 1 ELSE right_index, self))

\* The tiers with + and - searched before the logical and comparison
\* operators: the order C3 tells apart from the one of the code.
operator_precedence_ArithmeticFirst ==
    << {"MINUS", "PLUS"},
       {"OR"},
       {"AND"},
       {"EQUAL_EQUAL", "GREATER", "GREATER_EQUAL", "LESS_EQUAL", "LESS",
        "BANG_EQUAL"},
       {"BANG"},
       {"MULTIPLY", "DIVIDE", "MODULUS"},
       {"EXPONENT"} >>

operator_precedence ==
    << {"OR"},
       {"AND"},
       {"EQUAL_EQUAL", "GREATER", "GREATER_EQUAL", "LESS_EQUAL", "LESS",
        "BANG_EQUAL"},
       {"BANG"},
       {"MINUS", "PLUS"},
       {"MULTIPLY", "DIVIDE", "MODULUS"},
       {"EXPONENT"} >>

HandleByOperations(self, operations, left_index, right_index, index) ==
    LET token_type == RetrieveToken(index).type IN
    IF token_type \in operations
    THEN IF token_type \in unary_operations
         THEN HandleUnaryOperation(self, index, right_index)
         ELSE HandleBinaryOperation(self, left_index, index, right_index)
    ELSE Ok(None, self)

\* The scan of one tier preferring the last operator of the tier in the range
\* to the first: the search C10 tells apart from the one of the code.
OperatorScan_Rightmost(self, operators, left_index, right_index, index) ==
    IF ~(index < right_index) THEN Ok(None, self)
    ELSE LET later == OperatorScan(self, operators, left_index, right_index,
                          index + 1) IN
         IF later.kind = "ok" /\ later.node # None THEN later
         ELSE HandleByOperations(self, operators, left_index, right_index,
                  index)

\* The while loop of _parse_expression_recursive for one precedence tier,
\* from `index` on: the node found, or None when the loop exits.
OperatorScan(self, operators, left_index, right_index, index) ==
    IF ~(index < right_index) THEN Ok(None, self)
    ELSE Then(IF RetrieveToken(index).type = "LEFT_PAREN"
              THEN SkipParentheses(self, index, right_index)
              ELSE Ok(index, self),
              LAMBDA skipped :
         Then(HandleByOperations(self, operators, left_index, right_index,
                  skipped.node),
              LAMBDA node :
         IF node.node # None THEN node
         ELSE OperatorScan(self, operators, left_index, right_index,
                  skipped.node + 1)))

\* The for loop of _parse_expression_recursive over the tiers, from `tier` on,
\* and the raise that follows it.
OperatorSearch(self, left_index, right_index, tier) ==
    IF tier > Len(operator_precedence)
    THEN SyntaxException(RetrieveToken(left_index).line,
             "Invalid expression: no valid operations found.")
    ELSE Then(OperatorScan(self, operator_precedence[tier], left_index,
                  right_index, left_index),
              LAMBDA node :
         IF node.node # None THEN node
         ELSE OperatorSearch(self, left_index, right_index, tier + 1))

ParseExpressionRecursive(self, left_index, right_index) ==
    IF ~Readable(left_index) \/ ~Readable(right_index) THEN IndexError
    ELSE LET left_token == RetrieveToken(left_index)
             index_delta == right_index - left_index
         IN  IF index_delta = 0
             THEN IF left_token.type \notin valid_expression_types
                  THEN SyntaxException(left_token.line,
                           "Invalid token in expression: TokenType."
                               \o left_token.type)
                  ELSE HandleToken(self, <<left_index>>, None)
             ELSE Then(IsNestedParens(self, left_index, right_index),
                       LAMBDA nested :
                  IF nested.node
                  THEN ParseExpressionRecursive(self, left_index + 1,
                           right_index - 1)
                  ELSE OperatorSearch(self, left_index, right_index, 1))

HandleUnaryOperation(self, index, right_index) ==
    Then(ParseExpressionRecursive(self, index + 1, right_index),
         LAMBDA right_node :
    IF right_node.node = None
    THEN SyntaxException(RetrieveToken(index).line,
             "Invalid expression: missing right operand.")
    ELSE HandleToken(right_node.self, <<index>>,
             [type |-> "UnaryOperationContext",
              operand |-> right_node.node]))

HandleBinaryOperation(self, left_index, index, right_index) ==
    Then(ParseExpressionRecursive(self, left_index, index - 1),
         LAMBDA left_node :
    IF left_node.node = None
    THEN SyntaxException(RetrieveToken(index).line,
             "Invalid expression: missing left operand.")
    ELSE Then(ParseExpressionRecursive(left_node.self, index + 1,
                  right_index),
              LAMBDA right_node :
         IF right_node.node = None
         THEN SyntaxException(RetrieveToken(index).line,
                  "Invalid expression: missing right operand.")
         ELSE HandleToken(right_node.self, <<index>>,
                  [type |-> "BinaryOperationContext",
                   left |-> left_node.node, right |-> right_node.node])))

\* The while loop of _parse_block with `nodes` collected so far.  An
\* iteration that returns a node and leaves the cursor where it was is
\* repeated for ever: the loop's condition and body read the cursor only.
ParseBlockLoop(self, block_nodes) ==
    IF ~Readable(self.current) THEN IndexError
    ELSE IF CurrentToken(self).type = "RIGHT_BRACE"
    THEN Ok([type |-> "BlockNode", nodes |-> block_nodes], self)
    ELSE IF IsEofToken(self)
    THEN SyntaxException(CurrentToken(self).line, "Missing closing right brace.")
    ELSE Then(HandleToken(self, <<>>, None),
              LAMBDA node :
         IF node.self.current = self.current THEN Diverges
         ELSE ParseBlockLoop(node.self, Append(block_nodes, node.node)))

ParseBlock(self) == ParseBlockLoop(self, <<>>)

\* Returns the pair <<condition_node, if_block_node>>.
ParseConditional(self) ==
    Then(ParseExpression(self),
         LAMBDA condition_node :
    Then(ValidateToken(condition_node.self, {"LEFT_BRACE"},
             "Expected '{' to begin if statement block."),
         LAMBDA l :
    Then(ParseBlock(l.self),
         LAMBDA if_block_node :
    Then(ValidateToken(if_block_node.self, {"RIGHT_BRACE"},
             "Expected '}' to begin if statement block."),
         LAMBDA r :
    Ok(<<condition_node.node, if_block_node.node>>, r.self)))))

ParseIfStatement(self) ==
    Then(ValidateToken(self, {"IF"}, "Expected if for if statement."),
         LAMBDA i :
    Then(ParseConditional(i.self),
         LAMBDA conditional :
    Then(ParseNextIfConditional(conditional.self),
         LAMBDA next_conditional :
    Ok([type |-> "IfNode", condition |-> conditional.node[1],
        block |-> conditional.node[2], next |-> next_conditional.node],
       next_conditional.self))))

\* _parse_next_if_conditional parsing the clauses after an elseif without
\* linking them to it: the chain C4 tells apart from the one of the code.
ParseNextIfConditional_Unlinked(self) ==
    IF ~Readable(self.current) THEN IndexError
    ELSE IF CurrentToken(self).type = "ELSE" THEN ParseElse(self)
    ELSE IF CurrentToken(self).type = "ELSEIF"
    THEN Then(ValidateToken(self, {"ELSEIF"},
                  "Expected elseif for elseif statement."),
              LAMBDA e :
         Then(ParseConditional(e.self),
              LAMBDA conditional :
         Then(ParseNextIfConditional(conditional.self),
              LAMBDA next_conditional :
         Ok([type |-> "ElseIfNode", condition |-> conditional.node[1],
             block |-> conditional.node[2], next |-> None],
            next_conditional.self))))
    ELSE Ok(None, self)

ParseNextIfConditional(self) ==
    IF ~Readable(self.current) THEN IndexError
    ELSE IF CurrentToken(self).type = "ELSE" THEN ParseElse(self)
    ELSE IF CurrentToken(self).type \notin if_statement_tokens
    THEN Ok(None, self)
    ELSE IF CurrentToken(self).type = "ELSEIF"
    THEN Then(ValidateToken(self, {"ELSEIF"},
                  "Expected elseif for elseif statement."),
              LAMBDA e :
         Then(ParseConditional(e.self),
              LAMBDA conditional :
         Then(ParseNextIfConditional(conditional.self),
              LAMBDA next_conditional :
         Ok([type |-> "ElseIfNode", condition |-> conditional.node[1],
             block |-> conditional.node[2],
             next |-> next_conditional.node], next_conditional.self))))
    ELSE Ok(None, self)

ParseElse(self) ==
    IF ~Readable(self.current) THEN IndexError
    ELSE IF CurrentToken(self).type = "ELSE"
    THEN Then(ValidateToken(self, {"ELSE"}, "Expected else for else."),
              LAMBDA e :
         Then(ValidateToken(e.self, {"LEFT_BRACE"},
                  "Expected '{' to begin else block."),
              LAMBDA l :
         Then(ParseBlock(l.self),
              LAMBDA else_block_node :
         Then(ValidateToken(else_block_node.self, {"RIGHT_BRACE"},
                  "Expected '}' to begin else block."),
              LAMBDA r :
         Ok([type |-> "ElseNode", block |-> else_block_node.node], r.self)))))
    ELSE Ok([type |-> "ElseNode", block |-> None], self)

----------------------------------------------------------------------------
(* parse(): one action per iteration of its loop, one for its return.      *)

\* The nodes the loop of parse() collects before the model stops following
\* a loop that no longer advances.
MaxNodes == 3

\* One iteration of the while loop of parse().
ParseStatement ==
    /\ status = "parsing"
    /\ InBounds(current)
    /\ ~IsEofToken([current |-> current, calls |-> calls])
    /\ Len(nodes) < MaxNodes
    /\ \E node \in {HandleToken([current |-> current, calls |-> calls],
                        <<>>, None)} :
           IF node.kind = "ok"
           THEN /\ nodes' = Append(nodes, node.node)
                /\ current' = node.self.current
                /\ calls' = node.self.calls
                /\ UNCHANGED <<tokens, status, error, result>>
           ELSE /\ status' = node.kind
                /\ error' = IF node.kind = "SyntaxException"
                            THEN [line |-> node.line, message |-> node.message]
                            ELSE NoError
                /\ UNCHANGED <<tokens, current, nodes, calls, result>>

\* The exit of the loop of parse() and its return statement.
ParseReturn ==
    /\ status = "parsing"
    /\ ~(InBounds(current)
         /\ ~IsEofToken([current |-> current, calls |-> calls]))
    /\ result' = [type |-> "BlockNode", nodes |-> nodes]
    /\ status' = "returned"
    /\ UNCHANGED <<tokens, current, nodes, calls, error>>

Next == ParseStatement \/ ParseReturn

----------------------------------------------------------------------------
(* Token lists.  The lexer is outside the parser: a token is a record of   *)
(* its kind, lexeme, literal and line.  In the generated lists the token   *)
(* at index i has the name n<i> as lexeme and literal and stands alone on  *)
(* line i + 1, so that leaves and error lines identify their token.        *)

\* The name of the token at index i: n0, n1, ...
Name(i) == "n" \o ToString(i)

Token(type, lexeme, line) ==
    [type |-> type, lexeme |-> lexeme, literal |-> lexeme, line |-> line]

\* The token list of a sequence of kinds.
Lex(kinds) == [i \in 1..Len(kinds) |-> Token(kinds[i], Name(i - 1), i)]

Seqs(S, n) == UNION {[1..k -> S] : k \in 0..n}

\* The parser object after __init__(tokens).
InitParser(input) ==
    /\ tokens = input
    /\ current = 0
    /\ nodes = <<>>
    /\ calls = <<>>
    /\ status = "parsing"
    /\ error = NoError
    /\ result = None

\* Arbitrary short token lists over the kinds that start or end a statement.
MaxTokens == 4

StatementKinds ==
    {"PRINT", "VAR", "IDENTIFIER", "EQUAL", "NUMBER", "SEMI_COLON", "PLUS",
     "BANG", "IF", "LEFT_BRACE", "RIGHT_BRACE", "ELSE"}

Init ==
    \E k \in Seqs(StatementKinds, MaxTokens) : InitParser(Lex(k \o <<"EOF">>))

Spec == Init /\ [][Next]_vars

\* Statements `print <run> ;` and `if <run> { }` whose run is any sequence
\* of at most MaxRun tokens of the kinds below: leaves, the parentheses, the
\* unary operator, binary operators of three precedence tiers and the comma.
MaxRun == 4

ExpressionKinds ==
    {"IDENTIFIER", "NUMBER", "LEFT_PAREN", "RIGHT_PAREN", "OR", "BANG",
     "MINUS", "MULTIPLY", "COMMA"}

\* The token list of a statement: the run between a head and a tail.
Statement(head, run, tail) == Lex(head \o run \o tail)

InitExpression ==
    \E r \in Seqs(ExpressionKinds, MaxRun) :
        \/ InitParser(Statement(<<"PRINT">>, r, <<"SEMI_COLON", "EOF">>))
        \/ InitParser(Statement(<<"IF">>, r,
                                <<"LEFT_BRACE", "RIGHT_BRACE", "EOF">>))

SpecExpression == InitExpression /\ [][Next]_vars

\* The program of the end-to-end comparison tests, with `op` as its
\* comparison:   var isEquivalent = 4 op (8 / 2) * 3;  print(isEquivalent);
ComparisonProgram(op) ==
    << Token("VAR", "var", 2), Token("IDENTIFIER", "isEquivalent", 2),
       Token("EQUAL", "=", 2), Token("NUMBER", "4", 2), Token(op, op, 2),
       Token("LEFT_PAREN", "(", 2), Token("NUMBER", "8", 2),
       Token("DIVIDE", "/", 2), Token("NUMBER", "2", 2),
       Token("RIGHT_PAREN", ")", 2), Token("MULTIPLY", "*", 2),
       Token("NUMBER", "3", 2), Token("SEMI_COLON", ";", 2),
       Token("PRINT", "print", 3), Token("LEFT_PAREN", "(", 3),
       Token("IDENTIFIER", "isEquivalent", 3), Token("RIGHT_PAREN", ")", 3),
       Token("SEMI_COLON", ";", 3), Token("EOF", "", 4) >>

Comparisons ==
    {"EQUAL_EQUAL", "BANG_EQUAL", "GREATER", "GREATER_EQUAL", "LESS",
     "LESS_EQUAL"}

\* Well-formed expressions of at most MaxOperands operands joined by binary
\* operators of several tiers; an operand is a leaf, a parenthesized
\* operation or a negated leaf.
MaxOperands == 3

OperandForms ==
    { <<"IDENTIFIER">>,
      <<"LEFT_PAREN", "IDENTIFIER", "OR", "NUMBER", "RIGHT_PAREN">>,
      <<"BANG", "IDENTIFIER">> }

TierOperators == {"OR", "LESS", "MINUS", "DIVIDE", "EXPONENT"}

\* operand i, operator i, operand i + 1, ...
RECURSIVE Join(_, _, _)
Join(operands, operators, i) ==
    IF i > Len(operands) THEN <<>>
    ELSE (IF i > 1 THEN <<operators[i - 1]>> ELSE <<>>)
             \o operands[i] \o Join(operands, operators, i + 1)

InitPrecedence ==
    \/ \E op \in Comparisons : InitParser(ComparisonProgram(op))
    \/ \E n \in 1..MaxOperands :
           \E operands \in [1..n -> OperandForms] :
               \E operators \in [1..(n - 1) -> TierOperators] :
                   InitParser(Statement(<<"PRINT">>,
                                        Join(operands, operators, 1),
                                        <<"SEMI_COLON", "EOF">>))
    \/ \E r \in Seqs(ExpressionKinds, MaxRun) :
           InitParser(Statement(<<"PRINT">>, r, <<"SEMI_COLON", "EOF">>))

SpecPrecedence == InitPrecedence /\ [][Next]_vars

\* If statements: an if clause, at most MaxElseIf elseif clauses and an
\* optional else clause, each with a condition and a block of the forms
\* below, followed by the end of the file or by another statement.
MaxElseIf == 2

Conditions ==
    { <<"IDENTIFIER">>,
      <<"LEFT_PAREN", "IDENTIFIER", "GREATER", "NUMBER", "RIGHT_PAREN">> }

Blocks ==
    { <<>>,
      <<"PRINT", "STRING", "SEMI_COLON">>,
      <<"IF", "IDENTIFIER", "LEFT_BRACE", "RIGHT_BRACE",
        "ELSE", "LEFT_BRACE", "VAR", "IDENTIFIER", "EQUAL", "NUMBER",
        "SEMI_COLON", "RIGHT_BRACE">> }

Followers ==
    { <<>>,
      <<"PRINT", "IDENTIFIER", "SEMI_COLON">>,
      <<"IF", "IDENTIFIER", "LEFT_BRACE", "RIGHT_BRACE">> }

\* The clauses from the i-th on: `if` or `elseif`, condition, block.
RECURSIVE Clauses(_, _, _)
Clauses(conditions, blocks, i) ==
    IF i > Len(conditions) THEN <<>>
    ELSE <<IF i = 1 THEN "IF" ELSE "ELSEIF">> \o conditions[i]
             \o <<"LEFT_BRACE">> \o blocks[i] \o <<"RIGHT_BRACE">>
             \o Clauses(conditions, blocks, i + 1)

InitIf ==
    \E n \in 0..MaxElseIf :
        \E conditions \in [1..(n + 1) -> Conditions] :
            \E blocks \in [1..(n + 1) -> Blocks] :
                \E follower \in Followers :
                    \/ InitParser(Lex(Clauses(conditions, blocks, 1)
                                      \o follower \o <<"EOF">>))
                    \/ \E else_block \in Blocks :
                           InitParser(Lex(Clauses(conditions, blocks, 1)
                                          \o <<"ELSE", "LEFT_BRACE">>
                                          \o else_block \o <<"RIGHT_BRACE">>
                                          \o follower \o <<"EOF">>))

SpecIf == InitIf /\ [][Next]_vars

\* Assignments and print statements followed by any sequence of at most
\* MaxTail tokens of the kinds below: what an expression is made of, the
\* semicolon, and tokens that start or end another statement.
MaxTail == 4

TailKinds ==
    {"NUMBER", "IDENTIFIER", "MINUS", "BANG", "LEFT_PAREN", "RIGHT_PAREN",
     "SEMI_COLON", "PRINT", "RIGHT_BRACE"}

InitTerminator ==
    \E t \in Seqs(TailKinds, MaxTail) :
        \/ InitParser(Statement(<<"VAR", "IDENTIFIER", "EQUAL">>, t, <<"EOF">>))
        \/ InitParser(Statement(<<"PRINT">>, t, <<"EOF">>))

SpecTerminator == InitTerminator /\ [][Next]_vars

\* Print statements whose expression is any sequence of at most
\* MaxOperation tokens that are operators or leaves, of every kind.
MaxOperation == 3

OperationKinds ==
    operation_types \cup {"IDENTIFIER", "NUMBER", "STRING", "TRUE", "FALSE"}

InitOperation ==
    \E r \in Seqs(OperationKinds, MaxOperation) :
        InitParser(Statement(<<"PRINT">>, r, <<"SEMI_COLON", "EOF">>))

SpecOperation == InitOperation /\ [][Next]_vars

\* Print statements whose expression is a chain without parentheses of at
\* most MaxChain operands joined by the binary operators below.
MaxChain == 4

ChainOperators == {"MINUS", "PLUS", "DIVIDE", "MULTIPLY", "LESS", "OR"}

ChainOperands == {<<"IDENTIFIER">>, <<"NUMBER">>}

InitChain ==
    \E n \in 1..MaxChain :
        \E operators \in [1..(n - 1) -> ChainOperators] :
            \E operand \in ChainOperands :
                InitParser(Statement(<<"PRINT">>,
                                     Join([i \in 1..n |-> operand],
                                          operators, 1),
                                     <<"SEMI_COLON", "EOF">>))

SpecChain == InitChain /\ [][Next]_vars

\* Print statements whose expression is any arrangement of at most
\* MaxGroups parts, a part being a parenthesized group, a nested group, an
\* empty pair of parentheses, an operand or an operator.
MaxGroups == 3

GroupForms ==
    {<<"LEFT_PAREN", "IDENTIFIER", "RIGHT_PAREN">>,
     <<"LEFT_PAREN", "IDENTIFIER", "PLUS", "NUMBER", "RIGHT_PAREN">>,
     <<"LEFT_PAREN", "LEFT_PAREN", "NUMBER", "RIGHT_PAREN", "MINUS",
       "IDENTIFIER", "RIGHT_PAREN">>,
     <<"LEFT_PAREN", "RIGHT_PAREN">>,
     <<"IDENTIFIER">>,
     <<"PLUS">>,
     <<"MULTIPLY">>,
     <<"BANG">>}

\* The parts from the i-th on, one after the other.
RECURSIVE Concat(_, _)
Concat(parts, i) ==
    IF i > Len(parts) THEN <<>> ELSE parts[i] \o Concat(parts, i + 1)

InitGroups ==
    \E parts \in Seqs(GroupForms, MaxGroups) :
        InitParser(Statement(<<"PRINT">>, Concat(parts, 1),
                             <<"SEMI_COLON", "EOF">>))

SpecGroups == InitGroups /\ [][Next]_vars

----------------------------------------------------------------------------
(* Vocabulary of the properties.                                           *)

\* parse() has run its first statement: it returned a node or it failed.
Acted == status # "parsing" \/ Len(nodes) > 0

Kind(i) == tokens[i + 1].type

\* The least index from c on whose token is not expression-legal (the EOF
\* token is not).
RunEnd(c) ==
    CHOOSE j \in c..(Len(tokens) - 1) :
        /\ Kind(j) \notin valid_expression_types
        /\ \A i \in c..(j - 1) : Kind(i) \in valid_expression_types

\* The index of the first token of the expression of the first statement.
FirstExpression ==
    IF Kind(0) = "VAR" THEN 3 ELSE 1

\* The leaf node that stands for the token at index i.
LeafOf(i) ==
    CASE Kind(i) = "IDENTIFIER" ->
             [type |-> "VariableNode", name |-> tokens[i + 1].lexeme]
      [] Kind(i) = "NUMBER" ->
             [type |-> "NumberLiteralNode", value |-> tokens[i + 1].literal]
      [] Kind(i) = "STRING" ->
             [type |-> "StringLiteralNode", value |-> tokens[i + 1].literal]
      [] Kind(i) = "TRUE" -> [type |-> "BooleanLiteralNode", value |-> TRUE]
      [] Kind(i) = "FALSE" -> [type |-> "BooleanLiteralNode", value |-> FALSE]

\* The operation node class of an operator kind.
NodeOf(kind) ==
    CASE kind = "OR" -> "OrNode"
      [] kind = "AND" -> "AndNode"
      [] kind = "EQUAL_EQUAL" -> "EqualsNode"
      [] kind = "BANG_EQUAL" -> "NotEqualsNode"
      [] kind = "LESS" -> "LessNode"
      [] kind = "LESS_EQUAL" -> "LessEqualsNode"
      [] kind = "GREATER" -> "GreaterNode"
      [] kind = "GREATER_EQUAL" -> "GreaterEqualsNode"
      [] kind = "BANG" -> "NotNode"
      [] kind = "PLUS" -> "AdditionNode"
      [] kind = "MINUS" -> "SubtractionNode"
      [] kind = "MULTIPLY" -> "MultiplicationNode"
      [] kind = "DIVIDE" -> "DivisionNode"
      [] kind = "MODULUS" -> "ModulusNode"
      [] kind = "EXPONENT" -> "ExponentNode"

LeafTypes ==
    {"VariableNode", "NumberLiteralNode", "StringLiteralNode",
     "BooleanLiteralNode"}

\* An expression tree read from left to right: its leaves and the classes
\* of its operation nodes, an operation between its operands and NotNode
\* before its operand.
RECURSIVE Flatten(_)
Flatten(node) ==
    IF node.type \in LeafTypes THEN <<node>>
    ELSE IF node.type = "NotNode"
    THEN <<[type |-> "NotNode"]>> \o Flatten(node.operand)
    ELSE IF node.type = "None" THEN <<>>
    ELSE Flatten(node.left) \o <<[type |-> node.type]>> \o Flatten(node.right)

\* The tokens of the range [l, r] read from left to right: its identifier
\* and literal tokens as leaves and its operator tokens as node classes.
RECURSIVE Symbols(_, _)
Symbols(l, r) ==
    IF l > r THEN <<>>
    ELSE (IF Kind(l) \in valid_print_types THEN <<LeafOf(l)>>
          ELSE IF Kind(l) \in operation_types
          THEN <<[type |-> NodeOf(Kind(l))]>>
          ELSE <<>>) \o Symbols(l + 1, r)

----------------------------------------------------------------------------
\* C1: parse() terminates on every EOF-terminated token list: an iteration
\* of the statement loop of parse() that does not raise leaves the cursor
\* strictly further, and the statement loop of _parse_block never runs for
\* ever.
C1_StatementLoopsAdvance ==
    [][status = "parsing" =>
          /\ status' # "diverges"
          /\ (status' = "parsing" => current' > current)]_vars

\* C5: every failure of parse() is a SyntaxException: no attribute access on
\* a missing operation-context and no token index outside the list.
C5_OnlySyntaxErrors == status \notin {"AttributeError", "IndexError"}

\* C2: the tree _parse_expression returns stands for the whole run it
\* consumed: read from left to right, its leaves and operation nodes are
\* the identifier, literal and operator tokens of the run, each once and in
\* source order.
C2_TreeCoversRun ==
    \A k \in 1..Len(calls) :
        Flatten(calls[k].node) = Symbols(calls[k].left, calls[k].right)

\* C8: when _parse_expression returns after starting at cursor c, the cursor
\* is the least index j >= c whose token is not expression-legal, the range
\* parsed was [c, j - 1], and the range parse left the cursor at c.
C8_CursorAtEndOfRun ==
    \A k \in 1..Len(calls) :
        /\ calls[k].after = RunEnd(calls[k].start)
        /\ calls[k].left = calls[k].start
        /\ calls[k].right = calls[k].after - 1
        /\ calls[k].before = calls[k].start

\* C8 witness: parse() has returned after _parse_expression consumed a run
\* of three tokens and left the cursor at the token after them.
C8_Witness ==
    /\ status = "returned"
    /\ Len(calls) = 1
    /\ calls[1].after = calls[1].start + 3
    /\ calls[1].node.type = "SubtractionNode"

\* The parentheses of the range [l, r] that have no partner in it:
\* <<closing parentheses with no opener, opening parentheses with no closer>>
\* after the tokens from l on, given the pair before them.
RECURSIVE Unmatched(_, _, _)
Unmatched(l, r, sofar) ==
    IF l > r THEN sofar
    ELSE Unmatched(l + 1, r,
             IF Kind(l) = "LEFT_PAREN" THEN <<sofar[1], sofar[2] + 1>>
             ELSE IF Kind(l) = "RIGHT_PAREN"
             THEN IF sofar[2] > 0 THEN <<sofar[1], sofar[2] - 1>>
                  ELSE <<sofar[1] + 1, sofar[2]>>
             ELSE sofar)

\* Without its parentheses the range [l, r] reads operand, binary operator,
\* operand, ..., operand.
RECURSIVE Alternates(_, _, _)
Alternates(l, r, operand) ==
    IF l > r THEN ~operand
    ELSE IF Kind(l) \in {"LEFT_PAREN", "RIGHT_PAREN"}
    THEN Alternates(l + 1, r, operand)
    ELSE IF operand
    THEN Kind(l) \in valid_print_types /\ Alternates(l + 1, r, FALSE)
    ELSE /\ Kind(l) \in operation_types \ unary_operations
         /\ Alternates(l + 1, r, TRUE)

\* C6: an expression of operands and binary operators whose parentheses
\* are unbalanced fails with the unmatched-parenthesis error of the
\* direction of the imbalance: "Left parenthesis missing closing right."
\* when an opening parenthesis has no closer, "Right parenthesis missing
\* corresponding left." when a closing parenthesis has no opener.
C6_UnmatchedParenthesisReported ==
    LET l == FirstExpression
        r == RunEnd(l) - 1
        unmatched == Unmatched(l, r, <<0, 0>>)
    IN  (Acted /\ Kind(0) = "PRINT" /\ Alternates(l, r, TRUE)) =>
            /\ (unmatched[1] = 0 /\ unmatched[2] > 0) =>
                   /\ status = "SyntaxException"
                   /\ error.message = "Left parenthesis missing closing right."
            /\ (unmatched[1] > 0 /\ unmatched[2] = 0) =>
                   /\ status = "SyntaxException"
                   /\ error.message =
                          "Right parenthesis missing corresponding left."

\* The token at p lies between a parenthesis of the range [l, r] and the
\* parenthesis that closes it.
Enclosed(p, l, r) ==
    \E q \in l..(p - 1) : \E m \in (p + 1)..r :
        /\ Kind(q) = "LEFT_PAREN"
        /\ Kind(m) = "RIGHT_PAREN"
        /\ Unmatched(q + 1, m - 1, <<0, 0>>) = <<0, 0>>

\* The operators of the range [l, r] outside every parenthesized group.
TopOperators(l, r) ==
    {p \in l..r : Kind(p) \in operation_types /\ ~Enclosed(p, l, r)}

\* The precedence tier of an operator kind, the lowest first.
TierOf(kind) ==
    CASE kind = "OR" -> 1
      [] kind = "AND" -> 2
      [] kind \in Comparisons -> 3
      [] kind = "BANG" -> 4
      [] kind \in {"PLUS", "MINUS"} -> 5
      [] kind \in {"MULTIPLY", "DIVIDE", "MODULUS"} -> 6
      [] kind = "EXPONENT" -> 7

\* The lowest tier among the operators at the indices `top`.
LowestTier(top) ==
    CHOOSE t \in {TierOf(Kind(p)) : p \in top} :
        \A p \in top : TierOf(Kind(p)) >= t

\* The leftmost operator of the lowest tier among those at `top`.
SplitPoint(top) ==
    CHOOSE p \in top :
        /\ TierOf(Kind(p)) = LowestTier(top)
        /\ \A q \in top : TierOf(Kind(q)) = LowestTier(top) => p <= q

\* The leaves of a tree and the leaves the tokens of [l, r] stand for.
Leaves(node) ==
    LET flat == Flatten(node) IN
    {flat[i] : i \in {j \in 1..Len(flat) : flat[j].type \in LeafTypes}}

LeavesOfRange(l, r) ==
    {LeafOf(i) : i \in {j \in l..r : Kind(j) \in valid_print_types}}

Number(literal) == [type |-> "NumberLiteralNode", value |-> literal]

\* C3: when a parsed range has operators outside its parentheses, the root
\* of its tree is an operator of the lowest precedence tier among them
\* (or; and; comparisons; not; + -; * / %; ^), the operands of the root
\* take their leaves from their own side of that operator, so that a
\* parenthesized group is never divided, and `4 op (8 / 2) * 3` parses to
\* the comparison of 4 with Multiplication(Division(8, 2), 3).
C3_RootIsLowestTier ==
    /\ \A k \in 1..Len(calls) :
           LET l == calls[k].left
               r == calls[k].right
               root == calls[k].node
               top == TopOperators(l, r)
               lowest == LowestTier(top)
               split == SplitPoint(top)
           IN  top # {} =>
                   /\ \E kind \in operation_types :
                          /\ NodeOf(kind) = root.type
                          /\ TierOf(kind) = lowest
                   /\ root.type = "NotNode" =>
                          Leaves(root.operand) \subseteq
                              LeavesOfRange(split + 1, r)
                   /\ root.type # "NotNode" =>
                          /\ Leaves(root.left) \subseteq
                                 LeavesOfRange(l, split - 1)
                          /\ Leaves(root.right) \subseteq
                                 LeavesOfRange(split + 1, r)
    /\ \A op \in Comparisons :
           (tokens = ComparisonProgram(op) /\ Acted) =>
               /\ Len(nodes) >= 1
               /\ nodes[1] =
                      [type |-> "AssignmentNode",
                       variable |-> [type |-> "VariableNode",
                                     name |-> "isEquivalent"],
                       value |->
                           [type |-> NodeOf(op),
                            left |-> Number("4"),
                            right |->
                                [type |-> "MultiplicationNode",
                                 left |-> [type |-> "DivisionNode",
                                           left |-> Number("8"),
                                           right |-> Number("2")],
                                 right |-> Number("3")]]]

\* C3 witness: parse() has returned the tree of the program
\* `var isEquivalent = 4 == (8 / 2) * 3; print(isEquivalent);`.
C3_Witness ==
    /\ tokens = ComparisonProgram("EQUAL_EQUAL")
    /\ status = "returned"
    /\ result.nodes[1].value.type = "EqualsNode"
    /\ result.nodes[1].value.right.type = "MultiplicationNode"

\* The index of the brace that closes the block opened at or after index i,
\* `depth` blocks being open before i.
RECURSIVE CloseOf(_, _)
CloseOf(i, depth) ==
    IF Kind(i) = "LEFT_BRACE" THEN CloseOf(i + 1, depth + 1)
    ELSE IF Kind(i) = "RIGHT_BRACE"
    THEN IF depth = 1 THEN i ELSE CloseOf(i + 1, depth - 1)
    ELSE CloseOf(i + 1, depth)

\* The clauses of the if statement read from the tokens: the clause whose
\* keyword is at index h and those that follow it, each with its node class
\* and its first and last token.
RECURSIVE ClausesFrom(_)
ClausesFrom(h) ==
    IF Kind(h) = "ELSE"
    THEN <<[type |-> "ElseNode", from |-> h, to |-> CloseOf(h + 1, 0)]>>
    ELSE LET close == CloseOf(RunEnd(h + 1), 0) IN
         <<[type |-> IF Kind(h) = "IF" THEN "IfNode" ELSE "ElseIfNode",
            from |-> h, to |-> close]>>
             \o (IF Kind(close + 1) \in {"ELSEIF", "ELSE"}
                 THEN ClausesFrom(close + 1) ELSE <<>>)

\* The chain of an if statement: the node and those its `next` links reach.
RECURSIVE ChainOf(_)
ChainOf(node) ==
    IF node.type \in {"IfNode", "ElseIfNode"}
    THEN <<node>> \o ChainOf(node.next)
    ELSE IF node.type = "ElseNode" THEN <<node>>
    ELSE <<>>

\* The leaves of a statement (AllLeaves) and of one clause of an if
\* statement, its condition and its block (OwnLeaves).
RECURSIVE AllLeaves(_)
RECURSIVE OwnLeaves(_)
AllLeaves(node) ==
    CASE node.type = "BlockNode" ->
             UNION {AllLeaves(node.nodes[i]) : i \in 1..Len(node.nodes)}
      [] node.type = "PrintNode" -> Leaves(node.value)
      [] node.type = "AssignmentNode" ->
             {node.variable} \cup Leaves(node.value)
      [] node.type = "IfNode" ->
             LET chain == ChainOf(node) IN
             UNION {OwnLeaves(chain[i]) : i \in 1..Len(chain)}
      [] OTHER -> Leaves(node)

OwnLeaves(node) ==
    IF node.type = "ElseNode" THEN AllLeaves(node.block)
    ELSE Leaves(node.condition) \cup AllLeaves(node.block)

\* C4: an if statement with n >= 0 elseif clauses and an optional else
\* clause parses to a chain in source order: an IfNode, then one ElseIfNode
\* for each elseif clause, then an ElseNode holding the else block when
\* there is an else clause; the last node of a chain without else clause
\* has no next; every node holds the condition and block of its own clause;
\* and the cursor is left just past the last closing brace of the chain.
C4_IfChainInSourceOrder ==
    (Kind(0) = "IF" /\ Acted) =>
        /\ status \in {"parsing", "returned"}
        /\ nodes[1].type = "IfNode"
        /\ LET expected == ClausesFrom(0)
               chain == ChainOf(nodes[1])
           IN  /\ Len(chain) = Len(expected)
               /\ \A k \in 1..Len(chain) :
                      /\ chain[k].type = expected[k].type
                      /\ OwnLeaves(chain[k]) =
                             LeavesOfRange(expected[k].from, expected[k].to)
                      /\ chain[k].type = "ElseNode" =>
                             chain[k].block.type = "BlockNode"
                      /\ (k = Len(chain) /\ chain[k].type # "ElseNode") =>
                             chain[k].next = None
               /\ (Len(nodes) = 1 /\ status = "parsing") =>
                      current = expected[Len(expected)].to + 1

\* C4 witness: parse() has returned the chain of an if statement with two
\* elseif clauses and an else clause.
C4_Witness ==
    /\ status = "returned"
    /\ result.nodes[1].type = "IfNode"
    /\ result.nodes[1].next.type = "ElseIfNode"
    /\ result.nodes[1].next.next.type = "ElseIfNode"
    /\ result.nodes[1].next.next.next.type = "ElseNode"
    /\ result.nodes[1].next.next.next.block.nodes # <<>>

\* The expression of the first statement parses: the range parse of its
\* run returns.
RunParses ==
    ParseExpressionRecursive(
        [current |-> FirstExpression, calls |-> <<>>],
        FirstExpression, RunEnd(FirstExpression) - 1).kind = "ok"

TerminatorMessage ==
    IF Kind(0) = "VAR" THEN "Expected ';' to terminate the statement."
    ELSE "Expected ';' to terminate statement."

\* C7 as stated: an assignment or print statement whose expression, here a
\* single literal or identifier, is followed by a token that is neither a
\* semicolon nor an operator fails with the missing-terminator error,
\* whatever that token is.
C7_MissingTerminatorWhateverFollows ==
    (/\ Acted
     /\ Kind(0) \in {"VAR", "PRINT"}
     /\ Kind(FirstExpression) \in valid_print_types
     /\ Kind(FirstExpression + 1) \notin operation_types \cup {"SEMI_COLON"}) =>
        /\ status = "SyntaxException"
        /\ error.message = TerminatorMessage

\* C7 as amended: an assignment or print statement whose expression, the
\* maximal run of expression-legal tokens, parses and is followed by a token
\* that is not a semicolon fails with the missing-terminator error at the
\* line of that token; and a statement that yields a node ends with the
\* semicolon after the run, its node holds leaves of the tokens before that
\* semicolon only and the cursor is left just past it.
C7_MissingTerminator ==
    LET c == FirstExpression
        j == RunEnd(c)
    IN  (Acted /\ Kind(0) \in {"VAR", "PRINT"}) =>
            /\ (Kind(j) # "SEMI_COLON" /\ RunParses) =>
                   /\ status = "SyntaxException"
                   /\ error = [line |-> tokens[j + 1].line,
                               message |-> TerminatorMessage]
                   /\ nodes = <<>>
            /\ Len(nodes) >= 1 =>
                   /\ Kind(j) = "SEMI_COLON"
                   /\ AllLeaves(nodes[1]) \subseteq LeavesOfRange(0, j - 1)
                   /\ (Len(nodes) = 1 /\ status = "parsing") => current = j + 1

\* C7 witness: `var x = 5` followed by a print statement has failed with
\* the missing-terminator error at the line of the print token.
C7_Witness ==
    /\ Kind(0) = "VAR"
    /\ Kind(3) = "NUMBER"
    /\ Kind(4) = "PRINT"
    /\ status = "SyntaxException"
    /\ error = [line |-> 5,
                message |-> "Expected ';' to terminate the statement."]

\* C9: `a op b` with single-token operands parses to the node class of the
\* operator kind with left = leaf(a) and right = leaf(b), for each of the
\* 14 binary kinds, and `not a` parses to a NotNode whose operand is the
\* leaf of a.
C9_OperatorNodes ==
    LET end == RunEnd(1) IN
    (Acted /\ Kind(0) = "PRINT") =>
        /\ (/\ end = 4
            /\ Kind(1) \in valid_print_types
            /\ Kind(2) \in operation_types \ {"BANG"}
            /\ Kind(3) \in valid_print_types) =>
               /\ status \in {"parsing", "returned"}
               /\ nodes[1] = [type |-> "PrintNode",
                              value |-> [type |-> NodeOf(Kind(2)),
                                         left |-> LeafOf(1),
                                         right |-> LeafOf(3)]]
        /\ (/\ end = 3
            /\ Kind(1) = "BANG"
            /\ Kind(2) \in valid_print_types) =>
               /\ status \in {"parsing", "returned"}
               /\ nodes[1] = [type |-> "PrintNode",
                              value |-> [type |-> "NotNode",
                                         operand |-> LeafOf(2)]]

\* C9 witness: parse() has returned the AndNode of `true and false`.
C9_Witness ==
    /\ status = "returned"
    /\ result.nodes[1].value =
           [type |-> "AndNode",
            left |-> [type |-> "BooleanLiteralNode", value |-> TRUE],
            right |-> [type |-> "BooleanLiteralNode", value |-> FALSE]]

\* The range [l, r] is operand, binary operator, operand, ..., operand
\* without parentheses.
Chain(l, r) ==
    /\ Alternates(l, r, TRUE)
    /\ \A i \in l..r : Kind(i) \notin {"LEFT_PAREN", "RIGHT_PAREN"}

\* The tree of a chain split at the leftmost operator of its lowest tier,
\* and so on in both parts.
RECURSIVE SplitTree(_, _)
SplitTree(l, r) ==
    IF l = r THEN LeafOf(l)
    ELSE LET split == SplitPoint({i \in l..r : Kind(i) \in operation_types})
         IN  [type |-> NodeOf(Kind(split)),
              left |-> SplitTree(l, split - 1),
              right |-> SplitTree(split + 1, r)]

\* The tree of a chain grouped to the right: x1 op (x2 op (... op xn)).
RECURSIVE RightGrouped(_, _)
RightGrouped(l, r) ==
    IF l = r THEN LeafOf(l)
    ELSE [type |-> NodeOf(Kind(l + 1)),
          left |-> LeafOf(l),
          right |-> RightGrouped(l + 2, r)]

\* C10: a chain of binary operators without parentheses is split at the
\* leftmost operator of its lowest tier, and so are its two parts; a chain
\* whose operators are all of one tier is therefore grouped to the right:
\* `a - b - c` parses to Subtraction(a, Subtraction(b, c)) and the left
\* operand is a single leaf at every level.
C10_LeftmostSplit ==
    \A k \in 1..Len(calls) :
        LET l == calls[k].left
            r == calls[k].right
        IN  Chain(l, r) =>
                /\ calls[k].node = SplitTree(l, r)
                /\ (\A i, j \in l..r :
                        (Kind(i) \in operation_types
                         /\ Kind(j) \in operation_types)
                            => TierOf(Kind(i)) = TierOf(Kind(j)))
                       => calls[k].node = RightGrouped(l, r)

\* C10 witness: parse() has returned Subtraction(a, Subtraction(b, c)) for
\* `a - b - c`.
C10_Witness ==
    /\ status = "returned"
    /\ Len(tokens) = 8
    /\ Kind(2) = "MINUS"
    /\ Kind(4) = "MINUS"
    /\ result.nodes[1].value =
           [type |-> "SubtractionNode",
            left |-> LeafOf(1),
            right |-> [type |-> "SubtractionNode",
                       left |-> LeafOf(3), right |-> LeafOf(5)]]

\* The indices the while loop of _parse_expression_recursive hands to
\* _handle_by_operations for one tier, from `index` on: the loop ends when
\* the index reaches right_index, when a node is returned or when an
\* exception is raised.
RECURSIVE CandidateIndices(_, _, _, _, _)
CandidateIndices(self, operators, left_index, right_index, index) ==
    IF ~(index < right_index) THEN {}
    ELSE LET skipped == IF RetrieveToken(index).type = "LEFT_PAREN"
                        THEN SkipParentheses(self, index, right_index)
                        ELSE Ok(index, self)
         IN  IF skipped.kind # "ok" THEN {}
             ELSE LET node == HandleByOperations(self, operators, left_index,
                                  right_index, skipped.node)
                  IN  {skipped.node} \cup
                          (IF node.kind # "ok" \/ node.node # None THEN {}
                           ELSE CandidateIndices(self, operators, left_index,
                                    right_index, skipped.node + 1))

\* The range [l, r] is searched for an operator: it has more than one token
\* and is not stripped of outer parentheses.
Searched(l, r) ==
    /\ r > l
    /\ LET nested == IsNestedParens([current |-> l, calls |-> <<>>], l, r)
       IN  nested.kind = "ok" /\ ~nested.node

\* C11: during the operator search over a range no token lying strictly
\* between a left parenthesis and its matching right parenthesis is tested
\* as a candidate operator, for every arrangement of groups in the range.
C11_GroupsAreOpaque ==
    LET l == FirstExpression
        r == RunEnd(l) - 1
    IN  (Acted /\ Kind(0) = "PRINT" /\ Searched(l, r)) =>
            \A tier \in 1..Len(operator_precedence) :
                \A index \in CandidateIndices([current |-> l, calls |-> <<>>],
                                 operator_precedence[tier], l, r, l) :
                    ~Enclosed(index, l, r)

\* The parenthesis at i is closed by the parenthesis at j: i is an opening
\* parenthesis, j a closing one, and the tokens between them are balanced
\* with no closing parenthesis before its opener.
Encloses(i, j) ==
    /\ Kind(i) = "LEFT_PAREN"
    /\ Kind(j) = "RIGHT_PAREN"
    /\ Unmatched(i + 1, j - 1, <<0, 0>>) = <<0, 0>>

\* The run of the print statement is the seven tokens `(a) + (b)`.
TwoGroups ==
    /\ Kind(0) = "PRINT"
    /\ RunEnd(1) = 8
    /\ [i \in 1..7 |-> Kind(i)] =
           <<"LEFT_PAREN", "IDENTIFIER", "RIGHT_PAREN", "PLUS",
             "LEFT_PAREN", "IDENTIFIER", "RIGHT_PAREN">>

\* C12: a range of more than one token is parsed as its interior if and
\* only if its first token is an opening parenthesis, its last token a
\* closing parenthesis, and the first closes exactly at the last; any other
\* range is left whole and searched for its operator, so that `(a) + (b)`
\* parses to Addition(a, b).
C12_StrippedIffEnclosed ==
    LET l == FirstExpression
        r == RunEnd(l) - 1
        self == [current |-> l, calls |-> <<>>]
    IN  (Acted /\ Kind(0) = "PRINT") =>
            /\ \A i \in l..r : \A j \in (i + 1)..r :
                   ParseExpressionRecursive(self, i, j) =
                       IF Encloses(i, j)
                       THEN ParseExpressionRecursive(self, i + 1, j - 1)
                       ELSE OperatorSearch(self, i, j, 1)
            /\ TwoGroups =>
                   /\ status \in {"parsing", "returned"}
                   /\ nodes[1] = [type |-> "PrintNode",
                                  value |-> [type |-> "AdditionNode",
                                             left |-> LeafOf(2),
                                             right |-> LeafOf(6)]]

\* C12 witness: parse() has returned Addition(a, b) for `(a) + (b)`, each
\* group stripped of its parentheses and the range left whole.
C12_Witness ==
    /\ TwoGroups
    /\ status = "returned"
    /\ result.nodes[1].value.type = "AdditionNode"
    /\ result.nodes[1].value.left.type = "VariableNode"

\* The parse failed with the given syntax error at the line of token i.
Reported(message, i) ==
    /\ status = "SyntaxException"
    /\ error.message = message
    /\ error.line = tokens[i + 1].line

\* C13: the range of a print statement, of two tokens or more and made of
\* operands and operators only, whose first token is a binary operator (and
\* whose last is no operator) fails with
\* the 'missing left operand' syntax error at the line of the first token,
\* and one whose last token is an operator (and whose first is no binary
\* operator) fails with the 'missing right operand' syntax error at the
\* line of the last token.
C13_MissingOperandReported ==
    LET l == FirstExpression
        r == RunEnd(l) - 1
        binary == operation_types \ unary_operations
    IN  (Acted /\ Kind(0) = "PRINT" /\ r > l
           /\ \A i \in l..r : Kind(i) \in valid_print_types \cup operation_types)
        =>  /\ (Kind(l) \in binary /\ Kind(r) \notin operation_types) =>
                   Reported("Invalid expression: missing left operand.", l)
            /\ (Kind(r) \in operation_types /\ Kind(l) \notin binary) =>
                   Reported("Invalid expression: missing right operand.", r)

\* An expression position holds a node, and so does every operand below it.
RECURSIVE Present(_)
Present(node) ==
    CASE node.type = "None" -> FALSE
      [] node.type \in LeafTypes -> TRUE
      [] node.type = "NotNode" -> Present(node.operand)
      [] OTHER -> Present(node.left) /\ Present(node.right)

\* Every expression position of a statement, of the clauses of an if
\* statement and of the statements of a block holds a node.
RECURSIVE Complete(_)
Complete(node) ==
    CASE node.type = "None" -> TRUE
      [] node.type = "BlockNode" ->
             \A i \in 1..Len(node.nodes) : Complete(node.nodes[i])
      [] node.type \in {"PrintNode", "AssignmentNode"} -> Present(node.value)
      [] node.type \in {"IfNode", "ElseIfNode"} ->
             /\ Present(node.condition)
             /\ Complete(node.block)
             /\ Complete(node.next)
      [] node.type = "ElseNode" -> Complete(node.block)
      [] OTHER -> Present(node)

\* C14: in the AST parse() returns, the value of every Print and Assignment
\* node, the condition of every If and ElseIf node and every operand of
\* every operation node is a node, and an expression range of one token
\* that was parsed without error resolved to a literal or a variable leaf.
C14_NoAbsentExpression ==
    /\ status = "returned" => Complete(result)
    /\ \A k \in 1..Len(calls) :
           calls[k].left = calls[k].right => calls[k].node.type \in LeafTypes

====
